---- MODULE Spec2Model ----
(***************************************************************************)
(* Model of webapp/app.py: the RateLimiter, the Flask session, and the     *)
(* handlers /login, /direct-login, /callback, /logout, /auth/verify,       *)
(* /refresh-token and the guarded pages.  Time is in seconds; usernames    *)
(* are sequences of one-character strings so that strip() and lower() are  *)
(* computed.                                                               *)
(*                                                                         *)
(* now      time.time()                                                    *)
(* attempts rate_limiter.attempts, lower-case username -> timestamps       *)
(* lockouts rate_limiter.lockouts, lower-case username -> lockout start    *)
(* session  the Flask session of one browser, a dict                       *)
(* pending  the handler that waits for the identity provider, if any       *)
(* resp     the last call or request and what it returned                  *)
(*                                                                         *)
(* A handler that calls the provider is two steps, before and after the    *)
(* call.  In SpecRL, SpecLogin and Spec requests are handled one at a      *)
(* time: SpecRL drives the RateLimiter methods alone, SpecLogin the        *)
(* /direct-login route with every provider outcome, Spec all routes.       *)
(* Three specifications have requests in flight together: SpecOverlap      *)
(* (/logout and /auth/verify during a /refresh-token), SpecBurst (two      *)
(* direct logins of one principal; pending maps a thread to its request)   *)
(* and SpecRace (two threads inside the RateLimiter, statement by          *)
(* statement; pending maps a thread to the frame of its call).  The        *)
(* permanent session lifetime of 3600 s lies beyond MaxTime.               *)
(***************************************************************************)
EXTENDS Integers, Sequences, FiniteSets, TLC

VARIABLES now, attempts, lockouts, session, pending, resp

vars == <<now, attempts, lockouts, session, pending, resp>>

\* ------------------------------------------------------------------ bounds
MaxTime == 900
MaxLog == 6
TickSteps == {150}

\* ------------------------------------------------- RateLimiter parameters
max_attempts == 5
window == 300
lockout_duration == 900

\* ------------------------------------------------------------ dictionaries
\* A Python dict is a function whose DOMAIN is the set of keys present.
EmptyDict == <<>>

Put(d, k, v) == [x \in (DOMAIN d) \cup {k} |-> IF x = k THEN v ELSE d[x]]

Del(d, k) == [x \in (DOMAIN d) \ {k} |-> d[x]]

\* --------------------------------------------------------------- usernames
LowerChar(c) ==
  CASE c = "A" -> "a"
    [] c = "B" -> "b"
    [] c = "L" -> "l"
    [] c = "O" -> "o"
    [] OTHER -> c

lower(s) == [i \in 1..Len(s) |-> LowerChar(s[i])]

RLUsernames == { <<"b", "o">>, <<"B", "o">>, <<"a", "l">> }

\* ------------------------------------------------------------- RateLimiter
Prune(log, t) == SelectSeq(log, LAMBDA x : t - x < window)

\* is_rate_limited with the lockout test made against window.
is_rate_limited_window_lockout(att, lock, username, t) ==
  LET u == lower(username)
      active == u \in DOMAIN lock /\ t - lock[u] < window
      lock1 == Del(lock, u)
      att1 == IF u \in DOMAIN att THEN att ELSE Put(att, u, <<>>)
      att2 == Put(att1, u, Prune(att1[u], t))
  IN  IF active
        THEN [ret |-> TRUE, attempts |-> att, lockouts |-> lock]
        ELSE IF Len(att2[u]) >= max_attempts
               THEN [ret |-> TRUE, attempts |-> att2, lockouts |-> Put(lock1, u, t)]
               ELSE [ret |-> FALSE, attempts |-> att2, lockouts |-> lock1]

\* is_rate_limited with > in place of >= in the threshold test.
is_rate_limited_above(att, lock, username, t) ==
  LET u == lower(username)
      active == u \in DOMAIN lock /\ t - lock[u] < lockout_duration
      lock1 == Del(lock, u)
      att1 == IF u \in DOMAIN att THEN att ELSE Put(att, u, <<>>)
      att2 == Put(att1, u, Prune(att1[u], t))
  IN  IF active
        THEN [ret |-> TRUE, attempts |-> att, lockouts |-> lock]
        ELSE IF Len(att2[u]) > max_attempts
               THEN [ret |-> TRUE, attempts |-> att2, lockouts |-> Put(lock1, u, t)]
               ELSE [ret |-> FALSE, attempts |-> att2, lockouts |-> lock1]

is_rate_limited(att, lock, username, t) ==
  LET u == lower(username)
      active == u \in DOMAIN lock /\ t - lock[u] < lockout_duration
      lock1 == Del(lock, u)
      att1 == IF u \in DOMAIN att THEN att ELSE Put(att, u, <<>>)
      att2 == Put(att1, u, Prune(att1[u], t))
  IN  IF active
        THEN [ret |-> TRUE, attempts |-> att, lockouts |-> lock]
        ELSE IF Len(att2[u]) >= max_attempts
               THEN [ret |-> TRUE, attempts |-> att2, lockouts |-> Put(lock1, u, t)]
               ELSE [ret |-> FALSE, attempts |-> att2, lockouts |-> lock1]

\* record_attempt keyed by the username as typed.
record_attempt_cased(att, username, t) ==
  LET u == username
      att1 == IF u \in DOMAIN att THEN att ELSE Put(att, u, <<>>)
  IN  Put(att1, u, Append(att1[u], t))

record_attempt(att, username, t) ==
  LET u == lower(username)
      att1 == IF u \in DOMAIN att THEN att ELSE Put(att, u, <<>>)
  IN  Put(att1, u, Append(att1[u], t))

\* clear_attempts without the removal of the lockout.
clear_attempts_keeps_lockout(att, lock, username) ==
  LET u == lower(username)
  IN  [attempts |-> Del(att, u), lockouts |-> lock]

clear_attempts(att, lock, username) ==
  LET u == lower(username)
  IN  [attempts |-> Del(att, u), lockouts |-> Del(lock, u)]

\* ---------------------------------------------------------------- initial
Init ==
  /\ now = 0
  /\ attempts = EmptyDict
  /\ lockouts = EmptyDict
  /\ session = EmptyDict
  /\ pending = EmptyDict
  /\ resp = [op |-> "init"]

Tick ==
  /\ \E d \in TickSteps : now + d <= MaxTime /\ now' = now + d
  /\ resp' = [op |-> "tick"]
  /\ UNCHANGED <<attempts, lockouts, session, pending>>

\* ------------------------------------------- the RateLimiter used directly
RECURSIVE SumLen(_, _)
SumLen(att, keys) ==
  IF keys = {} THEN 0
  ELSE LET k == CHOOSE x \in keys : TRUE
       IN  Len(att[k]) + SumLen(att, keys \ {k})

Logged(att) == SumLen(att, DOMAIN att)

Active(lock, username, t) ==
  lower(username) \in DOMAIN lock /\ t - lock[lower(username)] < lockout_duration

RLCheck(username) ==
  LET r == is_rate_limited(attempts, lockouts, username, now)
  IN  /\ attempts' = r.attempts
      /\ lockouts' = r.lockouts
      /\ resp' = [op |-> "is_rate_limited", username |-> username, ret |-> r.ret]
      /\ UNCHANGED <<now, session, pending>>

RLRecord(username) ==
  /\ Logged(attempts) < MaxLog
  /\ attempts' = record_attempt(attempts, username, now)
  /\ resp' = [op |-> "record_attempt", username |-> username]
  /\ UNCHANGED <<now, lockouts, session, pending>>

RLClear(username) ==
  LET r == clear_attempts(attempts, lockouts, username)
  IN  /\ attempts' = r.attempts
      /\ lockouts' = r.lockouts
      /\ resp' = [op |-> "clear_attempts", username |-> username,
                  locked |-> Active(lockouts, username, now)]
      /\ UNCHANGED <<now, session, pending>>

NextRL ==
  \/ Tick
  \/ \E u \in RLUsernames : RLCheck(u)
  \/ \E u \in RLUsernames : RLRecord(u)
  \/ \E u \in RLUsernames : RLClear(u)

SpecRL == Init /\ [][NextRL]_vars

\* ------------------------------------------------------ identity provider
KEYCLOAK_CLIENT_ID == "webapp"

None == "None"

DictGet(d, k, default) == IF k \in DOMAIN d THEN d[k] ELSE default

\* The accounts the provider knows, keyed by lower-case username.
Bo == <<"b", "o">>
Al == <<"a", "l">>

UserInfoOf(acct) ==
  IF acct = Bo
    THEN [sub |-> "id-bo", preferred_username |-> "bo",
          email |-> "bo@example.org", name |-> "Bo B"]
    ELSE [sub |-> "id-al", preferred_username |-> "al",
          email |-> "al@example.org", name |-> "Al A"]

\* Claims carried by the access tokens the provider issues (the JWT payload).
JwtValid(tok) == tok \in {"at-bo-view", "at-bo-modify", "at-al-admin"}

JwtPayload(tok) ==
  CASE tok = "at-bo-view" ->
         [groups |-> <<"view">>, realm_access |-> [roles |-> <<"view">>]]
    [] tok = "at-bo-modify" ->
         [resource_access |-> [webapp |-> [roles |-> <<"modify">>]]]
    [] tok = "at-al-admin" ->
         [groups |-> <<"admin">>, realm_access |-> [roles |-> <<"admin", "view">>]]

AccessTokensOf(acct) ==
  IF acct = Bo THEN {"at-bo-view", "at-bo-modify"} ELSE {"at-al-admin", "at-al-bad"}

OwnerOfRefresh(rt) == IF rt = "rt-bo" THEN Bo ELSE Al

ValidCreds(username, password) == lower(username) = Bo /\ password = "pw-bo"

\* The token responses of the provider: one with expires_in, one without
\* (the handler then assumes 300).
TokenBodies(acct) ==
  IF acct = Bo
    THEN { [access_token |-> "at-bo-view", refresh_token |-> "rt-bo", expires_in |-> 150],
           [access_token |-> "at-bo-modify", refresh_token |-> "rt-bo"] }
    ELSE { [access_token |-> "at-al-admin", refresh_token |-> "rt-al", expires_in |-> 150],
           [access_token |-> "at-al-bad", refresh_token |-> "rt-al"] }

Unavailable ==
  { [kind |-> "Timeout"], [kind |-> "ConnectionError"], [kind |-> "Exception"],
    [kind |-> "response", status |-> 503] }

\* What requests.post(token_url, grant_type=password) can yield.
PasswordGrantOutcomes(username, password) ==
  Unavailable \cup
  (IF ValidCreds(username, password)
     THEN { [kind |-> "response", status |-> 200, json |-> b] :
              b \in TokenBodies(lower(username)) \cup {EmptyDict} }
     ELSE { [kind |-> "response", status |-> 401] })

\* What requests.get(userinfo_url) can yield for a token issued to acct.
UserinfoOutcomes(acct) ==
  { [kind |-> "Timeout"], [kind |-> "ConnectionError"],
    [kind |-> "response", status |-> 401],
    [kind |-> "response", status |-> 200, json |-> UserInfoOf(acct)] }

\* --------------------------------------------------------- group extraction
ToSet(seq) == { seq[i] : i \in DOMAIN seq }

\* groups as collected from the decoded access token, before deduplication
decode_groups(access_token) ==
  IF ~JwtValid(access_token)
    THEN <<>>
    ELSE LET decoded == JwtPayload(access_token)
             g0 == DictGet(decoded, "groups", <<>>)
             g1 == IF "realm_access" \in DOMAIN decoded
                     THEN g0 \o DictGet(decoded["realm_access"], "roles", <<>>)
                     ELSE g0
             g2 == IF "resource_access" \in DOMAIN decoded
                       /\ KEYCLOAK_CLIENT_ID \in DOMAIN decoded["resource_access"]
                     THEN g1 \o DictGet(decoded["resource_access"][KEYCLOAK_CLIENT_ID],
                                        "roles", <<>>)
                     ELSE g1
         IN  g2

\* list(set(groups)): every element once, in an order Python does not fix.
ListOfSet(groups) ==
  LET S == ToSet(groups)
  IN  { l \in [1..Cardinality(S) -> S] : ToSet(l) = S }

make_user(user_info, groups) ==
  [id |-> DictGet(user_info, "sub", None),
   username |-> DictGet(user_info, "preferred_username", None),
   email |-> DictGet(user_info, "email", None),
   name |-> DictGet(user_info, "name", None),
   groups |-> groups]

\* ------------------------------------------------------------ request data
IsSpace(c) == c = " "

RECURSIVE lstrip(_)
lstrip(s) == IF s # <<>> /\ IsSpace(Head(s)) THEN lstrip(Tail(s)) ELSE s

RECURSIVE rstrip(_)
rstrip(s) ==
  IF s # <<>> /\ IsSpace(s[Len(s)]) THEN rstrip(SubSeq(s, 1, Len(s) - 1)) ELSE s

strip(s) == rstrip(lstrip(s))

FormUsernames == { <<>>, <<" ">>, <<"b", "o">>, <<"B", "o">>, <<" ", "b", "o">> }

FormPasswords == { "", "pw-bo", "wrong" }

RedirectArgs == { EmptyDict, [redirect |-> "/admin"] }

RoleArgs == { EmptyDict } \cup { [role |-> r] : r \in {"", "admin", "view", "modify", "other"} }

\* ----------------------------------------------------------- /direct-login
LoginError(msg, calls) == [view |-> "login.html", error |-> msg, provider_calls |-> calls]

TimeoutMessage == "Authentication service timeout. Please try again."

ConnectMessage == "Cannot connect to authentication service"

LockoutMessage ==
  "Too many failed attempts. Account temporarily locked. Please try again later."

\* on_exception with the failed call counted as an attempt.
on_exception_recording(sess, att, lock, username, t) ==
  [session |-> sess, attempts |-> record_attempt(att, username, t), lockouts |-> lock]

\* Lines 285-293: the except clauses return an error and touch nothing.
on_exception(sess, att, lock, username, t) ==
  [session |-> sess, attempts |-> att, lockouts |-> lock]

\* on_rejected that records the attempt twice.
on_rejected_twice(sess, att, lock, username, t) ==
  [session |-> sess,
   attempts |-> record_attempt(record_attempt(att, username, t), username, t),
   lockouts |-> lock]

\* Lines 262, 266, 275: a rejected login records one attempt.
on_rejected(sess, att, lock, username, t) ==
  [session |-> sess, attempts |-> record_attempt(att, username, t), lockouts |-> lock]

\* on_success without the call of clear_attempts.
on_success_keeps_attempts(sess, att, lock, username, t, tokens, user_info, glist) ==
  LET s1 == Put(sess, "user", make_user(user_info, glist))
      s2 == Put(s1, "access_token", tokens["access_token"])
      s3 == Put(s2, "refresh_token", DictGet(tokens, "refresh_token", None))
      s4 == Put(s3, "token_expires", t + DictGet(tokens, "expires_in", 300))
  IN  [session |-> s4, attempts |-> att, lockouts |-> lock]

\* Lines 238-253: the session is filled and the rate limiting cleared.
on_success(sess, att, lock, username, t, tokens, user_info, glist) ==
  LET s1 == Put(sess, "user", make_user(user_info, glist))
      s2 == Put(s1, "access_token", tokens["access_token"])
      s3 == Put(s2, "refresh_token", DictGet(tokens, "refresh_token", None))
      s4 == Put(s3, "token_expires", t + DictGet(tokens, "expires_in", 300))
      c == clear_attempts(att, lock, username)
  IN  [session |-> s4, attempts |-> c.attempts, lockouts |-> c.lockouts]

\* Lines 208-293: the handler from the token response on.  tok and ui are
\* the outcomes of the two provider calls, glist the order list(set()) gives.
direct_login_finish(sess, att, lock, t, username, args, tok, ui, glist) ==
  LET failed == on_exception(sess, att, lock, username, t)
      rejected == on_rejected(sess, att, lock, username, t)
  IN
  IF tok.kind = "Timeout"
    THEN failed @@ [out |-> LoginError(TimeoutMessage, 1)]
  ELSE IF tok.kind = "ConnectionError"
    THEN failed @@ [out |-> LoginError(ConnectMessage, 1)]
  ELSE IF tok.kind = "Exception"
    THEN failed @@ [out |-> LoginError("Login failed. Please try again.", 1)]
  ELSE IF tok.status = 200
    THEN LET tokens == tok.json
             access_token == DictGet(tokens, "access_token", None)
         IN  IF access_token # None
               THEN IF ui.kind = "Timeout"
                      THEN failed @@ [out |-> LoginError(TimeoutMessage, 2)]
                    ELSE IF ui.kind = "ConnectionError"
                      THEN failed @@ [out |-> LoginError(ConnectMessage, 2)]
                    ELSE IF ui.status = 200
                      THEN on_success(sess, att, lock, username, t, tokens, ui.json, glist)
                           @@ [out |-> [view |-> "redirect",
                                        location |-> DictGet(args, "redirect", "/monitoring"),
                                        provider_calls |-> 2]]
                      ELSE rejected @@
                           [out |-> LoginError("Failed to retrieve user information", 2)]
               ELSE rejected @@ [out |-> LoginError("Authentication failed", 1)]
    ELSE rejected @@
         [out |-> LoginError(IF tok.status = 401
                               THEN "Invalid username or password"
                               ELSE "Authentication failed. Please try again.", 1)]

\* DirectLoginBegin with the result of the rate-limit check ignored.
DirectLoginBegin_unlimited(form_username, password, args) ==
  /\ pending = EmptyDict
  /\ LET username == strip(form_username)
         r == is_rate_limited(attempts, lockouts, username, now)
         req == [op |-> "direct_login", username |-> username, password |-> password,
                 args |-> args]
     IN  IF username = <<>> \/ password = ""
           THEN /\ resp' = [op |-> "direct_login"]
                           @@ LoginError("Username and password are required", 0)
                /\ UNCHANGED <<attempts, lockouts, pending>>
           ELSE /\ attempts' = r.attempts
                /\ lockouts' = r.lockouts
                /\ pending' = req
                /\ resp' = [op |-> "requests.post", username |-> username]
  /\ UNCHANGED <<now, session>>

\* Lines 177-206: validation, the rate-limit check, and the token request.
DirectLoginBegin(form_username, password, args) ==
  /\ pending = EmptyDict
  /\ LET username == strip(form_username)
         r == is_rate_limited(attempts, lockouts, username, now)
         req == [op |-> "direct_login", username |-> username, password |-> password,
                 args |-> args]
     IN  IF username = <<>> \/ password = ""
           THEN /\ resp' = [op |-> "direct_login"]
                           @@ LoginError("Username and password are required", 0)
                /\ UNCHANGED <<attempts, lockouts, pending>>
           ELSE /\ attempts' = r.attempts
                /\ lockouts' = r.lockouts
                /\ IF r.ret
                     THEN /\ resp' = req @@ LoginError(LockoutMessage, 0)
                          /\ UNCHANGED pending
                     ELSE /\ pending' = req
                          /\ resp' = [op |-> "requests.post", username |-> username]
  /\ UNCHANGED <<now, session>>

\* The access token whose claims the handler decodes on this path, if any.
IssuedAccessToken(tok) ==
  IF tok.kind = "response" /\ tok.status = 200
    THEN DictGet(tok.json, "access_token", None) ELSE None

DirectLoginComplete(tok, ui) ==
  /\ pending # EmptyDict
  /\ pending.op = "direct_login"
  /\ tok \in PasswordGrantOutcomes(pending.username, pending.password)
  /\ ui \in UserinfoOutcomes(lower(pending.username))
  /\ \E glist \in ListOfSet(decode_groups(IssuedAccessToken(tok))) :
       LET r == direct_login_finish(session, attempts, lockouts, now,
                                    pending.username, pending.args, tok, ui, glist)
       IN  /\ session' = r.session
           /\ attempts' = r.attempts
           /\ lockouts' = r.lockouts
           /\ resp' = [op |-> "direct_login", username |-> pending.username,
                       password |-> pending.password, args |-> pending.args,
                       tok |-> tok,
                       ui |-> IF r.out.provider_calls = 2 THEN ui ELSE [kind |-> "unused"]]
                      @@ r.out
  /\ pending' = EmptyDict
  /\ UNCHANGED now

\* ------------------------------------------------------ /login, /callback
Login(args) ==
  /\ pending = EmptyDict
  /\ session' = Put(session, "redirect_after_login", DictGet(args, "redirect", "/"))
  /\ resp' = [op |-> "login", view |-> "redirect", location |-> "authorize"]
  /\ UNCHANGED <<now, attempts, lockouts, pending>>

\* What keycloak.authorize_access_token() can yield: it raises, or returns
\* the token dict, whose userinfo block is optional.
AuthorizeOutcomes ==
  { [kind |-> "Exception"] } \cup
  { [kind |-> "token", token |-> [access_token |-> at, userinfo |-> UserInfoOf(Al)]] :
      at \in AccessTokensOf(Al) } \cup
  { [kind |-> "token", token |-> [access_token |-> "at-al-admin"]],
    [kind |-> "token", token |-> [userinfo |-> UserInfoOf(Al)]] }

callback(sess, t, o, glist) ==
  IF o.kind = "Exception" \/ "userinfo" \notin DOMAIN o.token
    THEN [session |-> sess,
          out |-> [view |-> "login.html", error |-> "SSO login failed"]]
    ELSE LET token == o.token
             s1 == Put(sess, "user", make_user(token["userinfo"], glist))
             s2 == Put(s1, "access_token", DictGet(token, "access_token", None))
             s3 == Put(s2, "token_expires", t + DictGet(token, "expires_in", 300))
         IN  [session |-> Del(s3, "redirect_after_login"),
              out |-> [view |-> "redirect",
                       location |-> DictGet(s3, "redirect_after_login", "/monitoring")]]

Callback ==
  /\ pending = EmptyDict
  /\ \E o \in AuthorizeOutcomes :
       \E glist \in ListOfSet(
            IF o.kind = "token" /\ DictGet(o.token, "access_token", None) # None
              THEN decode_groups(o.token["access_token"]) ELSE <<>>) :
         LET r == callback(session, now, o, glist)
         IN  /\ session' = r.session
             /\ resp' = [op |-> "callback"] @@ r.out
  /\ UNCHANGED <<now, attempts, lockouts, pending>>

\* ----------------------------------------------------------------- /logout
Logout ==
  /\ pending = EmptyDict
  /\ session' = EmptyDict
  /\ resp' = [op |-> "logout", view |-> "logout.html"]
  /\ UNCHANGED <<now, attempts, lockouts, pending>>

\* ------------------------------------------------------------ /auth/verify
\* ','.join(user_groups): the elements with a comma between neighbours.
RECURSIVE Join(_)
Join(groups) ==
  IF Len(groups) <= 1 THEN groups
  ELSE <<Head(groups), ",">> \o Join(Tail(groups))

\* role_forbidden with view and modify not granted by admin.
role_forbidden_exact(required_role, user_groups, sess) ==
  IF required_role # None /\ required_role # ""
    THEN \/ required_role = "admin" /\ "admin" \notin user_groups
         \/ /\ required_role \in {"view", "modify"}
            /\ required_role \notin user_groups
    ELSE user_groups = {} /\ "user" \notin DOMAIN sess

\* role_forbidden that asks for some group when no role is named.
role_forbidden_needs_groups(required_role, user_groups, sess) ==
  IF required_role # None /\ required_role # ""
    THEN \/ required_role = "admin" /\ "admin" \notin user_groups
         \/ /\ required_role \in {"view", "modify"}
            /\ ~(\E group \in {required_role, "admin"} : group \in user_groups)
    ELSE user_groups = {} \/ "user" \notin DOMAIN sess

\* role_forbidden that refuses a role it does not know.
role_forbidden_unknown_refused(required_role, user_groups, sess) ==
  IF required_role # None /\ required_role # ""
    THEN \/ required_role = "admin" /\ "admin" \notin user_groups
         \/ /\ required_role \in {"view", "modify"}
            /\ ~(\E group \in {required_role, "admin"} : group \in user_groups)
         \/ required_role \notin {"admin", "view", "modify"}
    ELSE user_groups = {} /\ "user" \notin DOMAIN sess

\* Lines 399-412: the role requirements; TRUE when the answer is 403.
role_forbidden(required_role, user_groups, sess) ==
  IF required_role # None /\ required_role # ""
    THEN \/ required_role = "admin" /\ "admin" \notin user_groups
         \/ /\ ~(required_role = "admin" /\ "admin" \notin user_groups)
            /\ required_role \in {"view", "modify"}
            /\ ~(\E group \in {required_role, "admin"} : group \in user_groups)
    ELSE user_groups = {} /\ "user" \notin DOMAIN sess

\* auth_verify that answers 403 when a role is asked for without a session.
auth_verify_role_first(sess, args, t) ==
  LET required_role == DictGet(args, "role", None)
  IN
  IF "user" \notin DOMAIN sess
    THEN [status |-> IF required_role \in {"admin", "view", "modify"} THEN 403 ELSE 401,
          session |-> sess]
  ELSE
    LET user == sess["user"]
        user_groups == user.groups
        token_expires == DictGet(sess, "token_expires", 0)
    IN
    IF token_expires > 0 /\ t > token_expires
      THEN [status |-> 401, session |-> EmptyDict]
    ELSE IF role_forbidden(required_role, ToSet(user_groups), sess)
      THEN [status |-> 403, session |-> sess]
    ELSE [status |-> 200, session |-> sess,
          headers |-> [X_Forwarded_User |-> user.username,
                       X_Forwarded_Groups |-> Join(user_groups),
                       X_User_Email |-> user.email,
                       X_User_Name |-> user.name]]

\* auth_verify that reports the expiry and keeps the session.
auth_verify_keeps_expired(sess, args, t) ==
  LET required_role == DictGet(args, "role", None)
  IN
  IF "user" \notin DOMAIN sess
    THEN [status |-> 401, session |-> sess]
  ELSE
    LET user == sess["user"]
        user_groups == user.groups
        token_expires == DictGet(sess, "token_expires", 0)
    IN
    IF token_expires > 0 /\ t > token_expires
      THEN [status |-> 401, session |-> sess]
    ELSE IF role_forbidden(required_role, ToSet(user_groups), sess)
      THEN [status |-> 403, session |-> sess]
    ELSE [status |-> 200, session |-> sess,
          headers |-> [X_Forwarded_User |-> user.username,
                       X_Forwarded_Groups |-> Join(user_groups),
                       X_User_Email |-> user.email,
                       X_User_Name |-> user.name]]

auth_verify(sess, args, t) ==
  LET required_role == DictGet(args, "role", None)
  IN
  IF "user" \notin DOMAIN sess
    THEN [status |-> 401, session |-> sess]
  ELSE
    LET user == sess["user"]
        user_groups == user.groups
        token_expires == DictGet(sess, "token_expires", 0)
    IN
    IF token_expires > 0 /\ t > token_expires
      THEN [status |-> 401, session |-> EmptyDict]
    ELSE IF role_forbidden(required_role, ToSet(user_groups), sess)
      THEN [status |-> 403, session |-> sess]
    ELSE [status |-> 200, session |-> sess,
          headers |-> [X_Forwarded_User |-> user.username,
                       X_Forwarded_Groups |-> Join(user_groups),
                       X_User_Email |-> user.email,
                       X_User_Name |-> user.name]]

AuthVerify(args) ==
  /\ pending = EmptyDict
  /\ LET r == auth_verify(session, args, now)
     IN  /\ session' = r.session
         /\ resp' = [op |-> "auth_verify", args |-> args,
                     had_user |-> "user" \in DOMAIN session]
                    @@ [x \in DOMAIN r \ {"session"} |-> r[x]]
  /\ UNCHANGED <<now, attempts, lockouts, pending>>

\* ---------------------------------------------------------- /refresh-token
\* What requests.post(token_url, grant_type=refresh_token) can yield.
RefreshGrantOutcomes(rt) ==
  Unavailable \cup { [kind |-> "response", status |-> 400] } \cup
  (IF rt = None
     THEN {}
     ELSE { [kind |-> "response", status |-> 200, json |-> b] :
              b \in TokenBodies(OwnerOfRefresh(rt)) }
          \cup
          { [kind |-> "response", status |-> 200,
             json |-> [access_token |-> b["access_token"]]] :
              b \in TokenBodies(OwnerOfRefresh(rt)) })

\* refresh_token that keeps the refresh token it was called with.
refresh_token_finish_keeps_refresh(sess, t, o) ==
  IF o.kind # "response"
    THEN [session |-> sess, status |-> 500, error |-> "Token refresh failed"]
  ELSE IF o.status = 200
    THEN LET tokens == o.json
             s1 == Put(sess, "access_token", DictGet(tokens, "access_token", None))
             s3 == Put(s1, "token_expires", t + DictGet(tokens, "expires_in", 300))
         IN  [session |-> s3, status |-> 200]
    ELSE [session |-> EmptyDict, status |-> 401, error |-> "Token refresh failed"]

refresh_token_finish(sess, t, o) ==
  IF o.kind # "response"
    THEN [session |-> sess, status |-> 500, error |-> "Token refresh failed"]
  ELSE IF o.status = 200
    THEN LET tokens == o.json
             s1 == Put(sess, "access_token", DictGet(tokens, "access_token", None))
             s2 == Put(s1, "refresh_token", DictGet(tokens, "refresh_token", None))
             s3 == Put(s2, "token_expires", t + DictGet(tokens, "expires_in", 300))
         IN  [session |-> s3, status |-> 200]
    ELSE [session |-> EmptyDict, status |-> 401, error |-> "Token refresh failed"]

RefreshBegin ==
  /\ pending = EmptyDict
  /\ IF "refresh_token" \notin DOMAIN session
       THEN /\ resp' = [op |-> "refresh_token", status |-> 401,
                        error |-> "No refresh token available", provider_calls |-> 0]
            /\ UNCHANGED pending
       ELSE /\ pending' = [op |-> "refresh_token", session |-> session]
            /\ resp' = [op |-> "requests.post", grant |-> "refresh_token"]
  /\ UNCHANGED <<now, attempts, lockouts, session>>

\* The request works on the session it was sent with (pending.session), and
\* its response stores that session as the caller's session.
RefreshComplete ==
  /\ pending # EmptyDict
  /\ pending.op = "refresh_token"
  /\ \E o \in RefreshGrantOutcomes(pending.session["refresh_token"]) :
       LET r == refresh_token_finish(pending.session, now, o)
       IN  /\ session' = r.session
           /\ resp' = [op |-> "refresh_token", provider_calls |-> 1, outcome |-> o.kind,
                       tok |-> o]
                      @@ [x \in DOMAIN r \ {"session"} |-> r[x]]
  /\ pending' = EmptyDict
  /\ UNCHANGED <<now, attempts, lockouts>>

\* ---------------------------------------------------------- guarded pages
WIKIJS_ENABLED == TRUE

GuardedRoutes == {"/monitoring", "/documentation", "/admin", "/profile"}

\* The decorators answer for the view, or hand over to it (Proceed).
Proceed == [status |-> 0, view |-> "f(*args, **kwargs)", location |-> None]

require_auth(sess) ==
  IF "user" \notin DOMAIN sess
    THEN [status |-> 302, view |-> "redirect", location |-> "/"]
    ELSE Proceed

require_admin(sess) ==
  IF "user" \notin DOMAIN sess
    THEN [status |-> 302, view |-> "redirect", location |-> "/"]
    ELSE IF "admin" \notin ToSet(sess["user"].groups)
           THEN [status |-> 403, view |-> "Access Denied: Admin role required",
                 location |-> None]
           ELSE Proceed

\* The view function behind the decorator.
view_function(route) ==
  CASE route = "/monitoring" -> [status |-> 200, view |-> "monitoring.html", location |-> None]
    [] route = "/admin" -> [status |-> 200, view |-> "admin.html", location |-> None]
    [] route = "/profile" -> [status |-> 200, view |-> "profile.html", location |-> None]
    [] route = "/documentation" ->
         IF WIKIJS_ENABLED
           THEN [status |-> 302, view |-> "redirect", location |-> "DOCUMENTATION_URL"]
           ELSE [status |-> 503, view |-> "error.html", location |-> None]

guarded_page(route, sess) ==
  LET guard == IF route = "/admin" THEN require_admin(sess) ELSE require_auth(sess)
  IN  IF guard # Proceed THEN guard ELSE view_function(route)

GuardedPage(route) ==
  /\ pending = EmptyDict
  /\ resp' = [op |-> "page", route |-> route] @@ guarded_page(route, session)
  /\ UNCHANGED <<now, attempts, lockouts, session, pending>>

\* ----------------------------------------------------------- specifications
\* Every outcome of the password grant, over all requests.
TokenAll ==
  UNION { PasswordGrantOutcomes(u, p) : u \in FormUsernames, p \in FormPasswords }

UserinfoAll == UNION { UserinfoOutcomes(a) : a \in {Bo, Al} }

\* Spec: every route of the application is requested.  Direct logins here
\* are those of bo with the right password against a provider that answers
\* or times out; the failing logins are the subject of SpecLogin.
SessionTokenOutcomes ==
  { o \in TokenAll :
      o.kind = "Timeout" \/ (o.kind = "response" /\ o.status = 200 /\ o.json # EmptyDict) }

SessionUserinfoOutcomes == { o \in UserinfoAll : o.kind = "response" /\ o.status = 200 }

Next ==
  \/ Tick
  \/ DirectLoginBegin(Bo, "pw-bo", EmptyDict)
  \/ \E tok \in SessionTokenOutcomes, ui \in SessionUserinfoOutcomes :
       DirectLoginComplete(tok, ui)
  \/ \E a \in RedirectArgs : Login(a)
  \/ Callback
  \/ Logout
  \/ \E a \in RoleArgs : AuthVerify(a)
  \/ RefreshBegin
  \/ RefreshComplete
  \/ \E r \in GuardedRoutes : GuardedPage(r)

Spec == Init /\ [][Next]_vars

\* SpecOverlap: the session lives in the caller's cookie, every request
\* works on the copy it was sent with and its response stores that copy.
\* While a /refresh-token waits for the provider, the same caller's /logout
\* and /auth/verify are handled.
LogoutOverlapping ==
  /\ pending # EmptyDict
  /\ pending.op = "refresh_token"
  /\ session' = EmptyDict
  /\ resp' = [op |-> "logout", view |-> "logout.html"]
  /\ UNCHANGED <<now, attempts, lockouts, pending>>

AuthVerifyOverlapping(args) ==
  /\ pending # EmptyDict
  /\ pending.op = "refresh_token"
  /\ LET r == auth_verify(session, args, now)
     IN  /\ session' = r.session
         /\ resp' = [op |-> "auth_verify", args |-> args,
                     had_user |-> "user" \in DOMAIN session]
                    @@ [x \in DOMAIN r \ {"session"} |-> r[x]]
  /\ UNCHANGED <<now, attempts, lockouts, pending>>

NextOverlap ==
  \/ Tick
  \/ DirectLoginBegin(Bo, "pw-bo", EmptyDict)
  \/ \E tok \in SessionTokenOutcomes, ui \in SessionUserinfoOutcomes :
       DirectLoginComplete(tok, ui)
  \/ Logout
  \/ \E a \in RoleArgs : AuthVerify(a)
  \/ RefreshBegin
  \/ RefreshComplete
  \/ LogoutOverlapping
  \/ \E a \in RoleArgs : AuthVerifyOverlapping(a)

SpecOverlap == Init /\ [][NextOverlap]_vars

\* SpecBurst: failing direct logins of one principal handled by two threads
\* of the server at once.  pending maps a thread to the request it has sent to the
\* provider; each call of the limiter is one step.
Threads == {"t1", "t2"}

BurstPasswords == {"wrong"}

\* Lines 177-206 for the request taken by thread th.
BurstBegin(th, form_username, password) ==
  /\ th \notin DOMAIN pending
  /\ LET username == strip(form_username)
         r == is_rate_limited(attempts, lockouts, username, now)
         req == [op |-> "direct_login", username |-> username, password |-> password,
                 args |-> EmptyDict, session |-> session]
     IN  /\ attempts' = r.attempts
         /\ lockouts' = r.lockouts
         /\ IF r.ret
              THEN /\ resp' = [op |-> "direct_login", username |-> username, thread |-> th]
                              @@ LoginError(LockoutMessage, 0)
                   /\ UNCHANGED pending
              ELSE /\ pending' = Put(pending, th, req)
                   /\ resp' = [op |-> "requests.post", username |-> username, thread |-> th]
  /\ UNCHANGED <<now, session>>

\* Lines 206-293 for the request of thread th.
BurstComplete(th, tok, ui) ==
  /\ th \in DOMAIN pending
  /\ tok \in PasswordGrantOutcomes(pending[th].username, pending[th].password)
  /\ ui \in UserinfoOutcomes(lower(pending[th].username))
  /\ \E glist \in ListOfSet(decode_groups(IssuedAccessToken(tok))) :
       LET r == direct_login_finish(pending[th].session, attempts, lockouts, now,
                                    pending[th].username, pending[th].args, tok, ui, glist)
       IN  /\ session' = r.session
           /\ attempts' = r.attempts
           /\ lockouts' = r.lockouts
           /\ resp' = [op |-> "direct_login", username |-> pending[th].username,
                       thread |-> th, tok |-> tok] @@ r.out
  /\ pending' = Del(pending, th)
  /\ UNCHANGED now

\* The provider answers of SpecBurst: a rejection, or none in time.
BurstTokenOutcomes ==
  { o \in TokenAll : o.kind = "Timeout" \/ (o.kind = "response" /\ o.status = 401) }

NextBurst ==
  \/ Tick
  \/ \E th \in Threads, p \in BurstPasswords : BurstBegin(th, Bo, p)
  \/ \E th \in Threads, tok \in BurstTokenOutcomes, ui \in SessionUserinfoOutcomes :
       BurstComplete(th, tok, ui)

SpecBurst == Init /\ [][NextBurst]_vars

\* SpecRace: is_rate_limited and record_attempt of one principal run by two
\* threads, a statement at a time.  pending maps a thread to the frame of
\* its call: the locals now and username, the line it stands at, and what it
\* has read so far.  The list comprehension of line 67 is evaluated in one
\* step and assigned in another, and line 86 fetches the list in one step
\* and appends to it in another; no lock orders the threads.
RaceUsernames == {<<"b", "o">>, <<"B", "o">>}

Frame(th) == pending[th]

At(th, op, pc) == th \in DOMAIN pending /\ Frame(th).op = op /\ Frame(th).pc = pc

Goto(th, pc) == Put(pending, th, [Frame(th) EXCEPT !.pc = pc])

\* Lines 51-52 and 79-80: the call is entered.
RaceCall(th, op, username) ==
  /\ th \notin DOMAIN pending
  /\ op = "record_attempt" => Logged(attempts) < MaxLog
  /\ pending' = Put(pending, th,
                    [op |-> op, username |-> lower(username), now |-> now,
                     pc |-> IF op = "is_rate_limited" THEN "55" ELSE "83",
                     read |-> <<>>, orphan |-> FALSE])
  /\ resp' = [op |-> "call"]
  /\ UNCHANGED <<now, attempts, lockouts, session>>

\* Lines 55-60.
RaceLockout(th) ==
  /\ At(th, "is_rate_limited", "55")
  /\ LET u == Frame(th).username
     IN  IF u \in DOMAIN lockouts /\ Frame(th).now - lockouts[u] < lockout_duration
           THEN /\ pending' = Del(pending, th)
                /\ resp' = [op |-> "is_rate_limited", username |-> u, ret |-> TRUE,
                            thread |-> th]
                /\ UNCHANGED lockouts
           ELSE /\ lockouts' = Del(lockouts, u)
                /\ pending' = Goto(th, "63")
                /\ resp' = [op |-> "step"]
  /\ UNCHANGED <<now, attempts, session>>

\* Lines 63-64 and 83-84.
RaceInit(th) ==
  /\ At(th, "is_rate_limited", "63") \/ At(th, "record_attempt", "83")
  /\ LET u == Frame(th).username
     IN  attempts' = IF u \in DOMAIN attempts THEN attempts ELSE Put(attempts, u, <<>>)
  /\ pending' = Goto(th, IF Frame(th).op = "is_rate_limited" THEN "67" ELSE "86")
  /\ resp' = [op |-> "step"]
  /\ UNCHANGED <<now, lockouts, session>>

\* Line 67, right-hand side: the new list is built from the list as it is.
RaceFilter(th) ==
  /\ At(th, "is_rate_limited", "67")
  /\ pending' = Put(pending, th,
                    [Frame(th) EXCEPT !.pc = "67=",
                                      !.read = Prune(attempts[Frame(th).username],
                                                     Frame(th).now)])
  /\ resp' = [op |-> "step"]
  /\ UNCHANGED <<now, attempts, lockouts, session>>

\* Line 67, assignment: the new list replaces the old one, which a thread
\* standing between the two halves of line 86 still holds.
RaceStore(th) ==
  /\ At(th, "is_rate_limited", "67=")
  /\ LET u == Frame(th).username
     IN  /\ attempts' = Put(attempts, u, Frame(th).read)
         /\ pending' =
              [x \in DOMAIN pending |->
                 IF x = th THEN [Frame(th) EXCEPT !.pc = "70"]
                 ELSE IF At(x, "record_attempt", "86.") /\ Frame(x).username = u
                   THEN [Frame(x) EXCEPT !.orphan = TRUE]
                   ELSE Frame(x)]
  /\ resp' = [op |-> "step"]
  /\ UNCHANGED <<now, lockouts, session>>

\* Lines 70-76.
RaceThreshold(th) ==
  /\ At(th, "is_rate_limited", "70")
  /\ LET u == Frame(th).username
         many == Len(attempts[u]) >= max_attempts
     IN  /\ lockouts' = IF many THEN Put(lockouts, u, Frame(th).now) ELSE lockouts
         /\ resp' = [op |-> "is_rate_limited", username |-> u, ret |-> many,
                     thread |-> th]
  /\ pending' = Del(pending, th)
  /\ UNCHANGED <<now, attempts, session>>

\* Line 86, self.attempts[username]: the list is fetched.
RaceFetch(th) ==
  /\ At(th, "record_attempt", "86")
  /\ pending' = Goto(th, "86.")
  /\ resp' = [op |-> "step"]
  /\ UNCHANGED <<now, attempts, lockouts, session>>

\* Line 86, .append(now): the fetched list grows; it is the principal's
\* log unless the log has been replaced since the fetch.
RaceAppend(th) ==
  /\ At(th, "record_attempt", "86.")
  /\ LET u == Frame(th).username
     IN  /\ attempts' = IF Frame(th).orphan THEN attempts
                        ELSE Put(attempts, u, Append(attempts[u], Frame(th).now))
         /\ resp' = [op |-> "record_attempt", username |-> u, at |-> Frame(th).now,
                     thread |-> th]
  /\ pending' = Del(pending, th)
  /\ UNCHANGED <<now, lockouts, session>>

\* A call of the limiter takes no measurable time: the clock advances
\* between calls.
RaceTick == pending = EmptyDict /\ Tick

NextRace ==
  \/ RaceTick
  \/ \E th \in Threads, op \in {"is_rate_limited", "record_attempt"}, u \in RaceUsernames :
       RaceCall(th, op, u)
  \/ \E th \in Threads :
       \/ RaceLockout(th)
       \/ RaceInit(th)
       \/ RaceFilter(th)
       \/ RaceStore(th)
       \/ RaceThreshold(th)
       \/ RaceFetch(th)
       \/ RaceAppend(th)

SpecRace == Init /\ [][NextRace]_vars

\* SpecLogin: only /direct-login is requested, with every form input and
\* every provider outcome.

NextLogin ==
  \/ Tick
  \/ \E u \in FormUsernames, p \in FormPasswords, a \in RedirectArgs :
       DirectLoginBegin(u, p, a)
  \/ \E tok \in TokenAll, ui \in UserinfoAll :
       DirectLoginComplete(tok, ui)

SpecLogin == Init /\ [][NextLogin]_vars

\* ================================================================== claims
\* Number of username's recorded attempts that lie in the trailing window at t.
WindowCount(att, username, t) ==
  IF lower(username) \in DOMAIN att
    THEN Cardinality({ i \in DOMAIN att[lower(username)] :
                         t - att[lower(username)][i] < window })
    ELSE 0

IsCheck(r) == r.op = "is_rate_limited"

\* C1: once max_attempts failures lie in the trailing window, a check of p
\* returns true and starts the lockout at the time of that check; the
\* lockout start then stays as it is, and every check of p returns true,
\* until lockout_duration has elapsed since that check, unless
\* clear_attempts(p) is called.
C1_LockoutHolds ==
  [][\A u \in RLUsernames :
       LET k == lower(u)
           cleared == resp'.op = "clear_attempts" /\ lower(resp'.username) = k
           checked == IsCheck(resp') /\ lower(resp'.username) = k
       IN  /\ (checked /\ WindowCount(attempts, u, now) >= max_attempts)
                => (resp'.ret /\ k \in DOMAIN lockouts'
                      /\ now - lockouts'[k] < lockout_duration)
           /\ (k \in DOMAIN lockouts /\ now' - lockouts[k] < lockout_duration /\ ~cleared)
                => /\ k \in DOMAIN lockouts'
                   /\ lockouts'[k] = lockouts[k]
                   /\ checked => resp'.ret
     ]_vars

\* A check of bo answered true 750 s or more after the lockout began.
C1_Witness ==
  /\ IsCheck(resp) /\ lower(resp.username) = Bo /\ resp.ret
  /\ Bo \in DOMAIN lockouts
  /\ now - lockouts[Bo] >= 750
  /\ WindowCount(attempts, Bo, now) < max_attempts

\* C2: is_rate_limited(p) returns true exactly when p is inside an active
\* lockout or p's attempts within the window number max_attempts or more;
\* when it is the attempts that decide, the call starts a lockout at now.
C2_LimitedIff ==
  [][IsCheck(resp') =>
       LET u == resp'.username
           k == lower(u)
           active == k \in DOMAIN lockouts /\ now - lockouts[k] < lockout_duration
           many == WindowCount(attempts, u, now) >= max_attempts
       IN  /\ resp'.ret <=> (active \/ many)
           /\ (~active /\ many) => (k \in DOMAIN lockouts' /\ lockouts'[k] = now)
     ]_vars

\* A check that starts a lockout after an earlier lockout has run out.
C2_Witness ==
  /\ IsCheck(resp) /\ resp.ret
  /\ lower(resp.username) \in DOMAIN lockouts
  /\ lockouts[lower(resp.username)] = now
  /\ now >= lockout_duration
  /\ WindowCount(attempts, resp.username, now) >= max_attempts

IsVerify(r) == r.op = "auth_verify"

RoleOf(r) == DictGet(r.args, "role", None)

\* isExpired of the specification: an expiry is set (> 0) and t is past it.
Expired(sess, t) ==
  "token_expires" \in DOMAIN sess /\ sess["token_expires"] > 0 /\ t > sess["token_expires"]

\* C3: with an unexpired session and a role among admin, view, modify,
\* /auth/verify answers 200 exactly when the role or admin is among the
\* user's groups, and 403 otherwise.
C3_RoleDecision ==
  [][(IsVerify(resp') /\ "user" \in DOMAIN session /\ ~Expired(session, now)
        /\ RoleOf(resp') \in {"admin", "view", "modify"}) =>
       LET G == ToSet(session["user"].groups)
       IN  /\ resp'.status \in {200, 403}
           /\ resp'.status = 200 <=> (RoleOf(resp') \in G \/ "admin" \in G)
    ]_vars

\* role=modify answered 403 for a user whose groups are {view}.
C3_Witness ==
  /\ IsVerify(resp) /\ RoleOf(resp) = "modify" /\ resp.status = 403
  /\ "user" \in DOMAIN session
  /\ ToSet(session["user"].groups) = {"view"}
  /\ ~Expired(session, now)

\* C4: without a user in the session /auth/verify answers 401, whatever
\* the role parameter is.
C4_NoSession401 ==
  [][(IsVerify(resp') /\ "user" \notin DOMAIN session) => resp'.status = 401]_vars

\* role=admin answered 401 for a session that holds only the SSO redirect.
C4_Witness ==
  /\ IsVerify(resp) /\ ~resp.had_user /\ resp.status = 401
  /\ RoleOf(resp) = "admin"
  /\ "redirect_after_login" \in DOMAIN session

\* C5: /auth/verify on a session whose expiry is set and passed answers 401
\* for every role and clears the session, so that a verification of the
\* session it leaves answers 401 as well.
C5_ExpiredCleared ==
  [][(IsVerify(resp') /\ "user" \in DOMAIN session /\ Expired(session, now)) =>
       /\ resp'.status = 401
       /\ session' = EmptyDict
       /\ \A a \in RoleArgs : auth_verify(session', a, now').status = 401
    ]_vars

\* An expired session met by role=view: 401, and the session is gone.
C5_Witness ==
  /\ IsVerify(resp) /\ resp.had_user /\ resp.status = 401
  /\ RoleOf(resp) = "view"
  /\ session = EmptyDict

\* C6: every failed token refresh (a non-200 answer, a timeout, a refused
\* connection, any other exception) leaves the session cleared, so that
\* /auth/verify answers 401 afterwards.
C6_FailedRefreshClears ==
  (resp.op = "refresh_token" /\ resp.provider_calls = 1 /\ resp.status # 200) =>
    /\ session = EmptyDict
    /\ \A a \in RoleArgs : auth_verify(session, a, now).status = 401

\* C7: a direct login with credentials that arrives when five attempts lie
\* in the window, or during the lockout, gets the lockout message, sends
\* nothing to the provider and leaves the session alone; a direct login
\* that fills the session was not made during a lockout of its principal.
C7_LockedOutUnheard ==
  [][/\ (pending = EmptyDict /\ resp'.op \in {"direct_login", "requests.post"}
           /\ "username" \in DOMAIN resp'
           /\ (Active(lockouts, resp'.username, now)
                  \/ WindowCount(attempts, resp'.username, now) >= max_attempts))
          => /\ resp'.op = "direct_login"
             /\ resp'.error = LockoutMessage
             /\ resp'.provider_calls = 0
             /\ pending' = EmptyDict
             /\ session' = session
     /\ (resp'.op = "direct_login" /\ session' # session)
          => ~Active(lockouts, resp'.username, now)
    ]_vars

\* The right password refused with the lockout message, later in the lockout.
C7_Witness ==
  /\ resp.op = "direct_login" /\ resp.provider_calls = 0
  /\ "username" \in DOMAIN resp
  /\ resp.error = LockoutMessage
  /\ resp.password = "pw-bo"
  /\ Bo \in DOMAIN lockouts /\ now > lockouts[Bo]
  /\ WindowCount(attempts, Bo, now) = 0

\* The exception a provider call raised in the direct login r answers.
Raised(r) ==
  IF r.tok.kind # "response" THEN r.tok.kind
  ELSE IF r.ui.kind \in {"Timeout", "ConnectionError"} THEN r.ui.kind
  ELSE "none"

\* C8: a direct login whose provider call times out or cannot connect
\* shows the message of that failure and leaves attempts, lockouts and the
\* session as they were when the call was made.
C8_UnavailableUncounted ==
  [][(resp'.op = "direct_login" /\ pending # EmptyDict
        /\ Raised(resp') \in {"Timeout", "ConnectionError"}) =>
       /\ resp'.view = "login.html"
       /\ resp'.error = IF Raised(resp') = "Timeout" THEN TimeoutMessage ELSE ConnectMessage
       /\ attempts' = attempts
       /\ lockouts' = lockouts
       /\ session' = session
    ]_vars

\* A userinfo timeout for a principal one attempt short of the threshold.
C8_Witness ==
  /\ resp.op = "direct_login" /\ resp.provider_calls = 2
  /\ resp.ui.kind = "Timeout"
  /\ WindowCount(attempts, Bo, now) = max_attempts - 1
  /\ Bo \notin DOMAIN lockouts

\* The groups the claims of an access token name.
ExpectedGroups(access_token) ==
  CASE access_token = "at-bo-view" -> {"view"}
    [] access_token = "at-bo-modify" -> {"modify"}
    [] access_token = "at-al-admin" -> {"admin", "view"}
    [] OTHER -> {}

\* C9: a direct login the provider accepts (token 200 with an access token,
\* userinfo 200) leaves the session with the provider's user info, each
\* group of the token once, the access and refresh tokens and the expiry
\* now + expires_in (300 when the provider sends none), leaves the
\* principal without attempts and without lockout, and redirects to the
\* requested destination, /monitoring by default.
C9_LoginSucceeds ==
  [][(resp'.op = "direct_login" /\ pending # EmptyDict
        /\ resp'.tok.kind = "response" /\ resp'.tok.status = 200
        /\ "access_token" \in DOMAIN resp'.tok.json
        /\ resp'.ui.kind = "response" /\ resp'.ui.status = 200) =>
       LET b == resp'.tok.json
           info == resp'.ui.json
           k == lower(resp'.username)
       IN  /\ {"user", "access_token", "refresh_token", "token_expires"}
                 \subseteq DOMAIN session'
           /\ session'["user"].id = info.sub
           /\ session'["user"].username = info.preferred_username
           /\ session'["user"].email = info.email
           /\ session'["user"].name = info.name
           /\ ToSet(session'["user"].groups) = ExpectedGroups(b.access_token)
           /\ Len(session'["user"].groups) = Cardinality(ExpectedGroups(b.access_token))
           /\ session'["access_token"] = b.access_token
           /\ session'["refresh_token"] = b.refresh_token
           /\ session'["token_expires"] =
                now + (IF "expires_in" \in DOMAIN b THEN b.expires_in ELSE 300)
           /\ k \notin DOMAIN attempts'
           /\ k \notin DOMAIN lockouts'
           /\ resp'.view = "redirect"
           /\ resp'.location = (IF "redirect" \in DOMAIN resp'.args
                                  THEN resp'.args.redirect ELSE "/monitoring")
    ]_vars

\* A login of "Bo" sent on to /admin, with the group view held once.
C9_Witness ==
  /\ resp.op = "direct_login" /\ resp.provider_calls = 2
  /\ resp.view = "redirect" /\ resp.location = "/admin"
  /\ resp.username = <<"B", "o">>
  /\ session["user"].groups = <<"view">>
  /\ session["token_expires"] = now + 150
  /\ now > 0

\* C10: clear_attempts(p) removes p's attempt log and p's lockout, also
\* during an active lockout, leaves the entries of every other principal
\* as they are, and a check of p made right after it returns false.
C10_ClearRemovesBoth ==
  [][/\ resp'.op = "clear_attempts" =>
          LET k == lower(resp'.username)
          IN  /\ k \notin DOMAIN attempts'
              /\ k \notin DOMAIN lockouts'
              /\ DOMAIN attempts' = DOMAIN attempts \ {k}
              /\ DOMAIN lockouts' = DOMAIN lockouts \ {k}
              /\ \A q \in DOMAIN attempts' : attempts'[q] = attempts[q]
              /\ \A q \in DOMAIN lockouts' : lockouts'[q] = lockouts[q]
     /\ (resp.op = "clear_attempts" /\ IsCheck(resp')
           /\ lower(resp'.username) = lower(resp.username)) => ~resp'.ret
    ]_vars

\* clear_attempts(bo) during bo's active lockout while al has an attempt logged.
C10_Witness ==
  /\ resp.op = "clear_attempts" /\ lower(resp.username) = Bo /\ resp.locked
  /\ Bo \notin DOMAIN lockouts
  /\ Al \in DOMAIN attempts /\ attempts[Al] # <<>>

\* Pairs of a lower-case letter and its capital.
CasePairs == {<<"a", "A">>, <<"b", "B">>, <<"l", "L">>, <<"o", "O">>}

\* u and v are the same username up to the case of their letters.
DifferOnlyInCase(u, v) ==
  /\ Len(u) = Len(v)
  /\ \A i \in 1..Len(u) :
       u[i] = v[i] \/ <<u[i], v[i]>> \in CasePairs \/ <<v[i], u[i]>> \in CasePairs

\* C11: the limiter is case-insensitive: is_rate_limited, record_attempt and
\* clear_attempts called with one spelling of a username read and write the
\* entry of every other spelling; a failure recorded for one spelling counts
\* for all of them, and a lockout of one spelling locks out all of them.
C11_CaseInsensitive ==
  [][\A u, v \in RLUsernames :
       (DifferOnlyInCase(u, v) /\ "username" \in DOMAIN resp' /\ resp'.username = u) =>
         /\ resp'.op = "record_attempt" =>
              /\ attempts' = record_attempt(attempts, v, now)
              /\ WindowCount(attempts', v, now) = WindowCount(attempts, v, now) + 1
         /\ IsCheck(resp') =>
              /\ resp'.ret = is_rate_limited(attempts, lockouts, v, now).ret
              /\ attempts' = is_rate_limited(attempts, lockouts, v, now).attempts
              /\ lockouts' = is_rate_limited(attempts, lockouts, v, now).lockouts
              /\ resp'.ret => Active(lockouts', v, now)
         /\ resp'.op = "clear_attempts" =>
              /\ WindowCount(attempts', v, now) = 0
              /\ ~Active(lockouts', v, now)
    ]_vars

\* A check of "Bo" that starts a lockout, stored under the key of "bo".
C11_Witness ==
  /\ IsCheck(resp) /\ resp.username = <<"B", "o">> /\ resp.ret
  /\ Bo \in DOMAIN lockouts /\ lockouts[Bo] = now
  /\ DOMAIN attempts \subseteq {Bo, Al}

\* C13: each of /monitoring, /admin, /profile and /documentation redirects
\* an unauthenticated caller to / instead of serving the page, where
\* unauthenticated means that the session holds no user or that its token
\* expiry has passed.
C13_GuardedPagesRedirect ==
  [][(resp'.op = "page" /\ ("user" \notin DOMAIN session \/ Expired(session, now)))
       => (resp'.view = "redirect" /\ resp'.location = "/")
    ]_vars

\* C17: with an unexpired session and no role requested, /auth/verify
\* answers 200 whatever the groups of the session, the empty list included;
\* no request without a role is answered 403.
C17_NoRoleAlways200 ==
  [][(IsVerify(resp') /\ RoleOf(resp') \in {None, ""}) =>
       /\ resp'.status # 403
       /\ ("user" \in DOMAIN session /\ ~Expired(session, now)) =>
            (resp'.status = 200 /\ session' = session)
    ]_vars

\* A verification without a role, answered 200 for a session without groups.
C17_Witness ==
  /\ IsVerify(resp) /\ RoleOf(resp) = None /\ resp.status = 200
  /\ "user" \in DOMAIN session /\ session["user"].groups = <<>>

\* C18: a /refresh-token that the provider answers with 200 overwrites the
\* access token, the refresh token and the expiry (now + expires_in) and
\* nothing else: the user record with its groups, and every other key, stay
\* as they were.  A /refresh-token on a session without a refresh token
\* answers 401 without a provider call and without a change of the session.
C18_RefreshFrame ==
  [][resp'.op = "refresh_token" =>
       /\ resp'.provider_calls = 0 <=> "refresh_token" \notin DOMAIN session
       /\ resp'.provider_calls = 0 =>
            (resp'.status = 401 /\ session' = session /\ pending' = EmptyDict)
       /\ (resp'.provider_calls = 1 /\ resp'.status = 200) =>
            LET tokens == resp'.tok.json
                written == {"access_token", "refresh_token", "token_expires"}
            IN  /\ DOMAIN session' = DOMAIN session \cup written
                /\ \A key \in DOMAIN session \ written : session'[key] = session[key]
                /\ session'["access_token"] = tokens["access_token"]
                /\ session'["refresh_token"] =
                     (IF "refresh_token" \in DOMAIN tokens
                        THEN tokens["refresh_token"] ELSE None)
                /\ session'["token_expires"] =
                     now + (IF "expires_in" \in DOMAIN tokens
                              THEN tokens["expires_in"] ELSE 300)
    ]_vars

\* A refresh answered 200 without a new refresh token, on a session that
\* holds a user with groups and the path stored by /login.
C18_Witness ==
  /\ resp.op = "refresh_token" /\ resp.provider_calls = 1 /\ resp.status = 200
  /\ "refresh_token" \notin DOMAIN resp.tok.json
  /\ "user" \in DOMAIN session /\ session["user"].groups # <<>>
  /\ "redirect_after_login" \in DOMAIN session
  /\ session["refresh_token"] = None

\* The account a token of the provider was issued for.
IssuedFor(token) ==
  IF token \in AccessTokensOf(Bo) \/ token = "rt-bo" THEN Bo ELSE Al

\* C20: in every reachable session the access token and the refresh token,
\* when present, were issued for the principal of the session's user
\* record; a successful SSO callback leaves no refresh token of an earlier
\* login in the session.
C20_TokensOfSessionUser ==
  "user" \in DOMAIN session =>
    \A key \in {"access_token", "refresh_token"} \cap DOMAIN session :
      session[key] # None =>
        UserInfoOf(IssuedFor(session[key])).preferred_username = session["user"].username

\* The direct login answered by r was rejected by the provider: the token
\* answer was not 200, or was 200 without an access token, or the userinfo
\* answer was not 200.
ProviderRejected(r) ==
  /\ r.op = "direct_login" /\ r.provider_calls >= 1
  /\ r.tok.kind = "response"
  /\ \/ r.tok.status # 200
     \/ "access_token" \notin DOMAIN r.tok.json
     \/ r.provider_calls = 2 /\ r.ui.kind = "response" /\ r.ui.status # 200

\* C16: a direct login that the provider rejects records one failed attempt
\* for its principal, at the time of the answer, and leaves the session as
\* it was; no other step of a direct login (empty input, lockout, timeout,
\* connection failure, success) adds an attempt to any log.
C16_RejectionRecordsOnce ==
  [][IF ProviderRejected(resp')
       THEN LET k == lower(resp'.username)
                before == IF k \in DOMAIN attempts THEN attempts[k] ELSE <<>>
            IN  /\ resp'.view = "login.html"
                /\ DOMAIN attempts' = DOMAIN attempts \cup {k}
                /\ attempts'[k] = Append(before, now)
                /\ \A q \in DOMAIN attempts \ {k} : attempts'[q] = attempts[q]
                /\ lockouts' = lockouts
                /\ session' = session
       ELSE /\ Logged(attempts') <= Logged(attempts)
            /\ \A q \in DOMAIN attempts' :
                 Len(attempts'[q]) <= (IF q \in DOMAIN attempts THEN Len(attempts[q]) ELSE 0)
    ]_vars

\* A userinfo answer other than 200 for bo, recorded as bo's fourth attempt
\* in the window while the session of an earlier login is in place.
C16_Witness ==
  /\ ProviderRejected(resp) /\ resp.provider_calls = 2
  /\ Bo \in DOMAIN attempts /\ Len(attempts[Bo]) = 4
  /\ attempts[Bo][4] = now
  /\ "user" \in DOMAIN session

\* C15: every direct login and every SSO callback ends in exactly one of
\* two ways: the session is populated by that login (and the caller is
\* redirected), or an error is shown and the session holds no user; the
\* latter also when the session of an earlier login existed.
C15_PopulatedOrAbsent ==
  [][resp'.op \in {"direct_login", "callback"} =>
       \/ resp'.view = "redirect" /\ "user" \in DOMAIN session'
       \/ /\ resp'.view = "login.html" /\ "error" \in DOMAIN resp'
          /\ "user" \notin DOMAIN session'
    ]_vars

\* C14: /logout clears the session whatever it held and without a provider
\* call; once a /logout has completed, the session holds no user and no
\* tokens and /auth/verify answers 401 for as long as no login follows,
\* also when a /refresh-token that began before the /logout completes
\* after it.  Stated for the request that completes next after the /logout.
C14_LogoutStays ==
  [][/\ resp'.op = "logout" => (session' = EmptyDict /\ pending' = pending)
     /\ (resp.op = "logout" /\ resp'.op \notin {"direct_login", "callback"}) =>
          /\ DOMAIN session' \cap {"user", "access_token", "refresh_token"} = {}
          /\ IsVerify(resp') => resp'.status = 401
    ]_vars

\* C19: whatever the interleaving of direct logins of one principal, the
\* provider rejects at most max_attempts password grants of that principal
\* within any trailing window; every further request of the window gets the
\* lockout message without a provider call.  Each rejected grant is logged
\* once by the handler, so the principal's log never holds more than
\* max_attempts entries of the trailing window.
C19_AtMostMaxAttempts ==
  \A u \in RLUsernames : WindowCount(attempts, u, now) <= max_attempts

\* How often the time x stands in a log.
Count(log, x) == Cardinality({ i \in DOMAIN log : log[i] = x })

\* C12: under concurrent calls for one principal the limiter loses no
\* update: a record_attempt that completes has added its time to the
\* principal's log, and an entry of the log that lies within the window
\* stays in the log (no clear_attempts is called here), whatever the
\* interleaving with an is_rate_limited that prunes and rewrites the log.
C12_NoLostUpdate ==
  [][\A k \in { lower(u) : u \in RaceUsernames } :
       LET before == IF k \in DOMAIN attempts THEN attempts[k] ELSE <<>>
           after == IF k \in DOMAIN attempts' THEN attempts'[k] ELSE <<>>
       IN  /\ (resp'.op = "record_attempt" /\ resp'.username = k) =>
                Count(after, resp'.at) = Count(before, resp'.at) + 1
           /\ \A i \in DOMAIN before :
                now' - before[i] < window => Count(after, before[i]) >= Count(before, before[i])
    ]_vars

\* C21: /auth/verify treats a non-empty role outside admin, view, modify
\* as it treats an absent role: the answer is never 403, and with an
\* unexpired session it is 200 with the forwarding headers of the session's
\* user, whatever the groups, the session staying as it was.
C21_UnknownRoleAsAbsent ==
  [][(IsVerify(resp') /\ RoleOf(resp') \notin {None, "", "admin", "view", "modify"}) =>
       LET absent == auth_verify(session, EmptyDict, now)
       IN  /\ resp'.status # 403
           /\ resp'.status = absent.status
           /\ session' = absent.session
           /\ ("user" \in DOMAIN session /\ ~Expired(session, now)) =>
                /\ resp'.status = 200
                /\ session' = session
                /\ resp'.headers =
                     [X_Forwarded_User |-> session["user"].username,
                      X_Forwarded_Groups |-> Join(session["user"].groups),
                      X_User_Email |-> session["user"].email,
                      X_User_Name |-> session["user"].name]
    ]_vars

\* A verification for the role "other", answered 200 for a user whose only
\* group is view.
C21_Witness ==
  /\ IsVerify(resp) /\ RoleOf(resp) = "other" /\ resp.status = 200
  /\ "user" \in DOMAIN session /\ session["user"].groups = <<"view">>
  /\ resp.headers.X_Forwarded_Groups = <<"view">>

====
